---- MODULE Spec2Model ----
(***************************************************************************)
(* Model of wordChain.py: the word graph builder (get_close_words,        *)
(* make_word_graph, make_word_graph_simple) and the breadth-first search  *)
(* find_word_chain.                                                        *)
(*                                                                         *)
(* A word is a sequence of characters.  A word graph is a function from    *)
(* words (the dictionary keys) to sets of words.  An optional value is a   *)
(* sequence of length 0 (Python None) or 1 (the value).                    *)
(***************************************************************************)
EXTENDS Integers, Sequences, FiniteSets, TLC

VARIABLES
    all_words,      \* the vocabulary handed to make_word_graph
    all_chars,      \* make_word_graph: set(chain(*all_words))
    word_list,      \* make_word_graph: list(all_words), some order of the set
    word_sets,      \* pool.starmap result list, one slot per task
    done,           \* indices of the tasks whose result slot is filled
    running,        \* for each pool worker, the task it runs (0 = idle)
    word_graph,     \* the graph handed to find_word_chain
    pc,             \* position of the program
    initial,        \* find_word_chain argument
    goal,           \* find_word_chain argument
    word_queue,     \* find_word_chain: deque of frontier words
    predecessors,   \* find_word_chain: dict word -> word
    word,           \* find_word_chain: the word popped last
    todo,           \* neighbours the for loop has still to visit
    result,         \* find_word_chain: list built by the predecessor walk
    ret,            \* value returned by find_word_chain
    enqueued,       \* history: how often each word was put on word_queue
    expanded        \* history: how often each word was popped from word_queue

vars == <<all_words, all_chars, word_list, word_sets, done, running,
          word_graph, pc, initial, goal, word_queue, predecessors, word,
          todo, result, ret, enqueued, expanded>>

poolVars == <<all_words, all_chars, word_list, word_sets, done, running>>

-----------------------------------------------------------------------------
(* Bounds *)

MaxLen == 2
NumChars == 2
MaxWords == 3
NumWorkers == 2
MaxKeys == 2
CountCap == 3

Alphabet == <<"a", "b", "c", "d", "e">>

Chars == {Alphabet[i] : i \in 1..NumChars}

Words == UNION {[1..n -> Chars] : n \in 0..MaxLen}

Vocabularies == {V \in SUBSET Words : Cardinality(V) <= MaxWords}

LoadedWords == {<<Alphabet[i]>> : i \in 1..MaxKeys}

LoadedQueryWords == LoadedWords \cup {<<>>}

\* any dictionary from some of the words to sets of the words, neighbours
\* that are not keys included
LoadedGraphs == UNION {[K -> SUBSET LoadedWords] : K \in SUBSET LoadedWords}

-----------------------------------------------------------------------------
(* Values *)

None == <<>>

Some(v) == <<v>>

EmptyDict == [w \in {} |-> <<>>]

Min(a, b) == IF a <= b THEN a ELSE b

Count(f, w) == IF w \in DOMAIN f THEN f[w] ELSE 0

Incr(f, w) ==
    [x \in DOMAIN f \cup {w} |->
        IF x = w THEN Min(CountCap, Count(f, x) + 1) ELSE f[x]]

Range(s) == {s[i] : i \in DOMAIN s}

Perms(S) == {s \in [1..Cardinality(S) -> S] : Range(s) = S}

-----------------------------------------------------------------------------
(* get_close_words and the sequential builder *)

\* word[:pos] + char + word[pos + 1:]   (pos is 1-based here)
Substitute(w, pos, char) == [i \in 1..Len(w) |-> IF i = pos THEN char ELSE w[i]]

get_close_words_self(w, words, chars) ==
    {Substitute(w, pos, char) : pos \in 1..Len(w), char \in chars} \cap words

get_close_words(w, words, chars) ==
    {t \in {Substitute(w, pos, char) : pos \in 1..Len(w), char \in chars} :
        t /= w /\ t \in words}

AllCharsFirst(words) == {w[1] : w \in {x \in words : Len(x) > 0}}

\* set(chain(*all_words))
AllChars(words) == UNION {Range(w) : w \in words}

make_word_graph_simple(words) ==
    [w \in words |-> get_close_words(w, words, AllChars(words))]

\* dict(zip(keys, values)): a later pair wins over an earlier one
dict_zip(keys, values) ==
    [k \in Range(keys) |->
        values[CHOOSE i \in 1..Len(keys) :
                  /\ keys[i] = k
                  /\ \A j \in 1..Len(keys) : keys[j] = k => j <= i]]

imap_unordered_slot(task, finished) == Cardinality(finished) + 1

\* pool.starmap returns the results in the order of the arguments
starmap_slot(task, finished) == task

-----------------------------------------------------------------------------
(* make_word_graph: the parallel builder *)

Init ==
    /\ all_words \in Vocabularies
    /\ all_chars = {}
    /\ word_list = <<>>
    /\ word_sets = <<>>
    /\ done = {}
    /\ running = [k \in 1..NumWorkers |-> 0]
    /\ word_graph = EmptyDict
    /\ pc = "main"
    /\ initial = <<>>
    /\ goal = <<>>
    /\ word_queue = <<>>
    /\ predecessors = EmptyDict
    /\ word = <<>>
    /\ todo = {}
    /\ result = <<>>
    /\ ret = None
    /\ enqueued = EmptyDict
    /\ expanded = EmptyDict

searchVars == <<word_graph, initial, goal, word_queue, predecessors, word,
                todo, result, ret, enqueued, expanded>>

make_word_graph ==
    /\ pc = "main"
    /\ all_chars' = AllChars(all_words)
    /\ word_list' \in Perms(all_words)
    /\ word_sets' = [i \in 1..Cardinality(all_words) |-> {}]
    /\ done' = {}
    /\ pc' = "pool"
    /\ UNCHANGED <<all_words, running>>
    /\ UNCHANGED searchVars

Busy == {running[k] : k \in 1..NumWorkers}

Dispatch(k, i) ==
    /\ pc = "pool"
    /\ running[k] = 0
    /\ i \in (1..Len(word_list)) \ (done \cup Busy)
    /\ running' = [running EXCEPT ![k] = i]
    /\ UNCHANGED <<all_words, all_chars, word_list, word_sets, done, pc>>
    /\ UNCHANGED searchVars

Complete(k) ==
    /\ pc = "pool"
    /\ running[k] /= 0
    /\ word_sets' = [word_sets EXCEPT ![starmap_slot(running[k], done)] =
                        get_close_words(word_list[running[k]], all_words, all_chars)]
    /\ done' = done \cup {running[k]}
    /\ running' = [running EXCEPT ![k] = 0]
    /\ UNCHANGED <<all_words, all_chars, word_list, pc>>
    /\ UNCHANGED searchVars

make_word_graph_return ==
    /\ pc = "pool"
    /\ done = 1..Len(word_list)
    /\ word_graph' = dict_zip(word_list, word_sets)
    /\ all_chars' = {}
    /\ word_list' = <<>>
    /\ word_sets' = <<>>
    /\ done' = {}
    /\ pc' = "idle"
    /\ UNCHANGED <<all_words, running, initial, goal, word_queue, predecessors,
                   word, todo, result, ret, enqueued, expanded>>

-----------------------------------------------------------------------------
(* find_word_chain *)

length_mismatch_gt(i, g) == Len(i) > Len(g)

length_mismatch(i, g) == Len(i) /= Len(g)

initial_predecessors_marked(i) == [w \in {i} |-> None]

\* predecessors = {}
initial_predecessors(i) == EmptyDict

is_discovered_queue(n, preds, queue) == n \in Range(queue)

\* neighbor in predecessors
is_discovered(n, preds, queue) == n \in DOMAIN preds

popleft_peek(queue) == queue

\* what word_queue.popleft() leaves on the queue
popleft_rest(queue) == Tail(queue)

found_goal_popped(neighbor, popped, g) == popped = g

\* neighbor == goal
found_goal(neighbor, popped, g) == neighbor = g

\* not (result[-1] != initial)
walk_done(res, i, preds) == res[Len(res)] = i

not_reversed(res) == res

\* list(reversed(result))
reversed(res) == [k \in 1..Len(res) |-> res[Len(res) + 1 - k]]

find_word_chain(i, g) ==
    /\ pc \in {"idle", "returned"}
    /\ initial' = i
    /\ goal' = g
    /\ word' = <<>>
    /\ todo' = {}
    /\ result' = <<>>
    /\ expanded' = EmptyDict
    /\ IF length_mismatch(i, g)
       THEN /\ ret' = None
            /\ pc' = "returned"
            /\ word_queue' = <<>>
            /\ predecessors' = EmptyDict
            /\ enqueued' = EmptyDict
       ELSE /\ ret' = None
            /\ pc' = "while"
            /\ word_queue' = <<i>>
            /\ predecessors' = initial_predecessors(i)
            /\ enqueued' = Incr(EmptyDict, i)
    /\ UNCHANGED poolVars
    /\ UNCHANGED word_graph

WhileLoop ==
    /\ pc = "while"
    /\ IF word_queue = <<>>
       THEN /\ ret' = None
            /\ pc' = "returned"
            /\ UNCHANGED <<word_queue, word, todo, expanded>>
       ELSE /\ word' = Head(word_queue)
            /\ word_queue' = popleft_rest(word_queue)
            /\ expanded' = Incr(expanded, Head(word_queue))
            /\ IF Head(word_queue) \in DOMAIN word_graph
               THEN /\ todo' = word_graph[Head(word_queue)]
                    /\ pc' = IF word_graph[Head(word_queue)] = {}
                             THEN "while" ELSE "for"
               ELSE /\ todo' = {}
                    /\ pc' = "raised"
            /\ UNCHANGED ret
    /\ UNCHANGED poolVars
    /\ UNCHANGED <<word_graph, initial, goal, predecessors, result, enqueued>>

ForLoop ==
    /\ pc = "for"
    /\ \E neighbor \in todo :
        /\ todo' = todo \ {neighbor}
        /\ IF ~ is_discovered(neighbor, predecessors, word_queue)
           THEN /\ word_queue' = Append(word_queue, neighbor)
                /\ enqueued' = Incr(enqueued, neighbor)
                /\ predecessors' =
                       [w \in DOMAIN predecessors \cup {neighbor} |->
                           IF w = neighbor THEN word ELSE predecessors[w]]
                /\ IF found_goal(neighbor, word, goal)
                   THEN /\ result' = <<goal>>
                        /\ pc' = "walk"
                   ELSE /\ result' = result
                        /\ pc' = IF todo \ {neighbor} = {} THEN "while" ELSE "for"
           ELSE /\ pc' = IF todo \ {neighbor} = {} THEN "while" ELSE "for"
                /\ UNCHANGED <<word_queue, enqueued, predecessors, result>>
    /\ UNCHANGED poolVars
    /\ UNCHANGED <<word_graph, initial, goal, word, ret, expanded>>

Walk ==
    /\ pc = "walk"
    /\ IF walk_done(result, initial, predecessors)
       THEN /\ ret' = Some(reversed(result))
            /\ pc' = "returned"
            /\ UNCHANGED result
       ELSE IF result[Len(result)] \in DOMAIN predecessors
            THEN /\ result' = Append(result, predecessors[result[Len(result)]])
                 /\ UNCHANGED <<pc, ret>>
            ELSE /\ pc' = "raised"
                 /\ UNCHANGED <<result, ret>>
    /\ UNCHANGED poolVars
    /\ UNCHANGED <<word_graph, initial, goal, word_queue, predecessors, word,
                   todo, enqueued, expanded>>

-----------------------------------------------------------------------------
(* Specifications *)

Next ==
    \/ make_word_graph
    \/ \E k \in 1..NumWorkers : \E i \in 1..MaxWords + 1 : Dispatch(k, i)
    \/ \E k \in 1..NumWorkers : Complete(k)
    \/ make_word_graph_return
    \/ \E i \in Words : \E g \in Words : find_word_chain(i, g)
    \/ WhileLoop
    \/ ForLoop
    \/ Walk

Spec == Init /\ [][Next]_vars

\* load_word_graph: the graph is whatever the pickle file holds
InitLoaded ==
    /\ all_words = {}
    /\ all_chars = {}
    /\ word_list = <<>>
    /\ word_sets = <<>>
    /\ done = {}
    /\ running = [k \in 1..NumWorkers |-> 0]
    /\ word_graph \in LoadedGraphs
    /\ pc = "idle"
    /\ initial = <<>>
    /\ goal = <<>>
    /\ word_queue = <<>>
    /\ predecessors = EmptyDict
    /\ word = <<>>
    /\ todo = {}
    /\ result = <<>>
    /\ ret = None
    /\ enqueued = EmptyDict
    /\ expanded = EmptyDict

NextLoaded ==
    \/ \E i \in LoadedQueryWords : \E g \in LoadedQueryWords : find_word_chain(i, g)
    \/ WhileLoop
    \/ ForLoop
    \/ Walk

SpecLoaded == InitLoaded /\ [][NextLoaded]_vars

\* find_word_chain is sequential code: a started search keeps taking steps
LiveSpecLoaded == SpecLoaded /\ WF_vars(WhileLoop \/ ForLoop \/ Walk)

-----------------------------------------------------------------------------
(* Vocabulary of the properties *)

Built == pc \notin {"main", "pool"}

Called == pc \in {"while", "for", "walk", "returned", "raised"}

Searching == pc \in {"while", "for", "walk"}

Keys == DOMAIN word_graph

\* number of positions in which two words of equal length differ
DiffCount(a, b) == Cardinality({k \in 1..Len(a) : a[k] /= b[k]})

OneCharApart(a, b) == Len(a) = Len(b) /\ DiffCount(a, b) = 1

\* the sequences of at most |Keys| keys from i to g that follow edges of the
\* graph (a path with the fewest edges repeats no word, so it is among them)
ValidPaths(i, g) ==
    {p \in UNION {[1..n -> Keys] : n \in 1..Cardinality(Keys)} :
        /\ p[1] = i
        /\ p[Len(p)] = g
        /\ \A k \in 1..Len(p) - 1 : p[k + 1] \in word_graph[p[k]]}

Symmetric(g) ==
    \A a \in DOMAIN g : \A b \in g[a] : b \in DOMAIN g /\ a \in g[b]

NoSelfLoops(g) == \A a \in DOMAIN g : a \notin g[a]

Closed(g) == \A a \in DOMAIN g : g[a] \subseteq DOMAIN g

GraphCorrect(g, S) ==
    /\ DOMAIN g = S
    /\ \A W \in S : \A X \in S : X \in g[W] <=> OneCharApart(W, X)

-----------------------------------------------------------------------------
C2_PathValid ==
    (pc = "returned" /\ ret /= None)
    => /\ Len(ret[1]) >= 1
       /\ ret[1][1] = initial
       /\ ret[1][Len(ret[1])] = goal
       /\ \A k \in 1..Len(ret[1]) - 1 :
            /\ Len(ret[1][k]) = Len(ret[1][k + 1])
            /\ DiffCount(ret[1][k], ret[1][k + 1]) = 1
            /\ ret[1][k] \in Keys
            /\ ret[1][k + 1] \in word_graph[ret[1][k]]

C2_Witness ==
    /\ pc = "returned"
    /\ ret /= None
    /\ Len(ret[1]) >= 2
    /\ ret[1][1] = initial
    /\ ret[1][1] /= ret[1][Len(ret[1])]

\* C3: the built graph has exactly the vocabulary as keys, and X is a
\* neighbour of W exactly when they have equal length and differ in exactly
\* one position; the same holds of the sequential builder.
C3_GraphCorrect ==
    /\ Built => GraphCorrect(word_graph, all_words)
    /\ GraphCorrect(make_word_graph_simple(all_words), all_words)

C3_Witness ==
    /\ Built
    /\ \E W \in all_words : \E X \in all_words :
          /\ word_graph[W] /= {}
          /\ Len(X) /= Len(W)
          /\ word_graph[X] = {}

\* C4: when initial or goal is not a key of the graph, find_word_chain does
\* not raise and returns None.
C4_AbsentWordNoPath ==
    (Called /\ (initial \notin Keys \/ goal \notin Keys))
    => /\ pc /= "raised"
       /\ pc = "returned" => ret = None

\* C5: when initial and goal differ in length, find_word_chain returns None
\* at once: no word is ever queued or expanded and nothing is raised,
\* whatever the graph holds.
C5_LengthMismatch ==
    (Called /\ Len(initial) /= Len(goal))
    => /\ pc = "returned"
       /\ ret = None
       /\ word_queue = <<>>
       /\ enqueued = EmptyDict
       /\ expanded = EmptyDict
       /\ predecessors = EmptyDict

C5_Witness ==
    /\ pc = "returned"
    /\ Len(initial) /= Len(goal)
    /\ initial \notin Keys
    /\ goal \in Keys

\* C6: whatever the order of the word list, the assignment of tasks to
\* workers and the order of completion, every filled result slot holds the
\* neighbour set of the word at the same index, and the merged graph equals
\* the graph of the sequential builder.
C6_ParallelEqualsSimple ==
    /\ pc = "pool" =>
          \A i \in done :
              word_sets[i] = get_close_words(word_list[i], all_words, AllChars(all_words))
    /\ Built => word_graph = make_word_graph_simple(all_words)

C6_Witness ==
    /\ Built
    /\ \E W \in all_words : \E X \in all_words :
          /\ word_graph[W] /= {}
          /\ word_graph[X] /= {}
          /\ word_graph[W] /= word_graph[X]

\* C7: in the built graph, A is a neighbour of B exactly when B is a
\* neighbour of A.
C7_Symmetric ==
    Built => \A A \in all_words : \A B \in all_words :
                 A \in word_graph[B] <=> B \in word_graph[A]

C7_Witness ==
    /\ Built
    /\ \E A \in all_words : \E B \in all_words :
          /\ Len(A) = 2
          /\ Len(B) = 2
          /\ A[1] /= A[2]
          /\ B[1] = B[2]
          /\ B \in word_graph[A]
          /\ A \in word_graph[B]

C8_Case ==
    /\ pc = "returned"
    /\ initial = goal
    /\ initial \in Keys
    /\ Symmetric(word_graph)
    /\ NoSelfLoops(word_graph)

\* C8 as stated: with initial = goal a key of a symmetric graph without
\* self-loops, find_word_chain returns None.
C8_SameWordNoPath == C8_Case => ret = None

\* C8 amended: with initial = goal a key of a symmetric graph without
\* self-loops, find_word_chain returns None when the word has no neighbours
\* and the one-word path [initial] when it has at least one.
C8_SameWordAmended ==
    C8_Case => ret = IF word_graph[initial] = {} THEN None ELSE Some(<<initial>>)

C8_Witness ==
    /\ C8_Case
    /\ word_graph[initial] /= {}
    /\ ret = Some(<<initial>>)

\* C9: on a graph whose neighbour sets hold only keys, a search started from
\* a key eventually returns (the queue empties or the predecessor walk ends).
C9_Terminates ==
    (Searching /\ Closed(word_graph) /\ initial \in Keys) ~> (pc = "returned")

\* the walk ended although the predecessor entries form a cycle through initial
C9_Witness ==
    /\ pc = "returned"
    /\ Closed(word_graph)
    /\ ret /= None
    /\ Len(ret[1]) = 2
    /\ initial \in DOMAIN predecessors

C10_PredecessorsKept ==
    Searching =>
        \A w \in DOMAIN predecessors :
            w \in DOMAIN predecessors' /\ predecessors'[w] = predecessors[w]

\* C10 as stated: within one run every word, initial included, is queued at
\* most once and expanded at most once, and a predecessor entry is never
\* overwritten.
C10_QueuedOnce ==
    /\ [](\A w \in DOMAIN enqueued \cup DOMAIN expanded :
             Count(enqueued, w) <= 1 /\ Count(expanded, w) <= 1)
    /\ [][C10_PredecessorsKept]_vars

\* C10 amended: within one run every word other than initial is queued at
\* most once and expanded at most once, initial is queued and expanded at
\* most twice (at the start and when it is first reached over an edge), and
\* a predecessor entry is never overwritten.
C10_QueuedOnceAmended ==
    /\ [](\A w \in DOMAIN enqueued \cup DOMAIN expanded :
             /\ Count(enqueued, w) <= (IF w = initial THEN 2 ELSE 1)
             /\ Count(expanded, w) <= (IF w = initial THEN 2 ELSE 1)
             /\ Count(enqueued, w) = (IF w \in DOMAIN predecessors THEN 1 ELSE 0)
                                     + (IF w = initial THEN 1 ELSE 0))
    /\ [][C10_PredecessorsKept]_vars

\* initial was queued a second time, from a word that was queued once
C10_Witness ==
    /\ Called
    /\ Count(enqueued, initial) = 2
    /\ initial \in DOMAIN predecessors
    /\ \E w \in DOMAIN enqueued :
          /\ w /= initial
          /\ Count(enqueued, w) = 1
          /\ Count(expanded, w) = 1
          /\ predecessors[initial] = w

====
